---- MODULE Spec2Model ----
(***************************************************************************)
(* Model of the xxRMC sentence handler of nmea-parser (src/gnss/rmc.rs).   *)
(*                                                                         *)
(* A sentence is a sequence of one-character strings.  An f64 is held as   *)
(* an integer number of thousandths; a coordinate is held as an integer    *)
(* number of thousandths of an arc minute (degrees * 60000 + minutes *     *)
(* 1000), which represents degrees + minutes / 60 exactly.                 *)
(***************************************************************************)
EXTENDS Integers, Sequences, FiniteSets, TLC

VARIABLES
    fields,          \* the fields the receiver put into the sentence
    sentence,        \* the sentence text last handed to handle
    nav_system,      \* the navigation-system tag last handed to handle
    result,          \* what the latest call of handle returned
    first,           \* what the first call with these arguments returned
    again,           \* whether handle was called again with these arguments
    edits,           \* number of changes made to the sentence so far
    lone_hemisphere  \* coordinate decoder's outcome for an empty numeral
                     \* with a hemisphere letter: "None" or "Err"

vars == <<fields, sentence, nav_system, result, first, again, edits,
          lone_hemisphere>>

(***************************************************************************)
(* Option and Result values.                                               *)
(***************************************************************************)
None == <<"None">>

Some(v) == <<"Some", v>>

Ok(v) == <<"Ok", v>>

Err(msg) == <<"Err", msg>>

IsOk(r) == r[1] = "Ok"

IsErr(r) == r[1] = "Err"

IsSome(o) == o[1] = "Some"

(***************************************************************************)
(* Characters and decimal numerals.                                        *)
(***************************************************************************)
Digits == {"0", "1", "2", "3", "4", "5", "6", "7", "8", "9"}

DigitVal ==
    [c \in Digits |->
        CASE c = "0" -> 0 [] c = "1" -> 1 [] c = "2" -> 2 [] c = "3" -> 3
          [] c = "4" -> 4 [] c = "5" -> 5 [] c = "6" -> 6 [] c = "7" -> 7
          [] c = "8" -> 8 [] c = "9" -> 9]

IsDigits(s) == \A i \in 1..Len(s) : s[i] \in Digits

RECURSIVE DecVal(_)
DecVal(s) ==
    IF s = <<>> THEN 0
    ELSE DecVal(SubSeq(s, 1, Len(s) - 1)) * 10 + DigitVal[s[Len(s)]]

\* Index of the first occurrence of character c in s, 0 when there is none.
IndexOf(s, c) ==
    IF \E i \in 1..Len(s) : s[i] = c
    THEN CHOOSE i \in 1..Len(s) : s[i] = c /\ \A j \in 1..(i - 1) : s[j] # c
    ELSE 0

\* The first three fraction digits as thousandths ("5" is 500, "45" is 450).
FracMilli(fp) ==
    LET d(i) == IF i <= Len(fp) THEN DigitVal[fp[i]] ELSE 0
    IN  d(1) * 100 + d(2) * 10 + d(3)

\* str::parse::<f64>: [sign] digits [. digits] with at least one digit.
ParseF64(s) ==
    LET signed == s # <<>> /\ s[1] \in {"-", "+"}
        body   == IF signed THEN Tail(s) ELSE s
        dot    == IndexOf(body, ".")
        ip     == IF dot = 0 THEN body ELSE SubSeq(body, 1, dot - 1)
        fp     == IF dot = 0 THEN <<>> ELSE SubSeq(body, dot + 1, Len(body))
        mag    == DecVal(ip) * 1000 + FracMilli(fp)
    IN  IF IsDigits(ip) /\ IsDigits(fp) /\ Len(ip) + Len(fp) > 0
        THEN Ok(IF signed /\ s[1] = "-" THEN 0 - mag ELSE mag)
        ELSE Err(<<"invalid float literal">>)

(***************************************************************************)
(* Field tokenizer: sentence.split(',').collect() and                      *)
(* split.get(i).unwrap_or(&"").                                            *)
(***************************************************************************)
\* Faulty variant of Split: empty substrings are skipped.
RECURSIVE SplitSkipEmpty(_)
SplitSkipEmpty(text) ==
    LET c    == IndexOf(text, ",")
        head == IF c = 0 THEN text ELSE SubSeq(text, 1, c - 1)
        rest == IF c = 0 THEN <<>>
                ELSE SplitSkipEmpty(SubSeq(text, c + 1, Len(text)))
    IN  IF head = <<>> THEN rest ELSE <<head>> \o rest

RECURSIVE Split(_)
Split(text) ==
    LET c == IndexOf(text, ",")
    IN  IF c = 0 THEN <<text>>
        ELSE <<SubSeq(text, 1, c - 1)>>
                 \o Split(SubSeq(text, c + 1, Len(text)))

Get(split, i) == IF i < Len(split) THEN split[i + 1] ELSE <<>>

(***************************************************************************)
(* Primitive field decoders of the parent module.                          *)
(***************************************************************************)
\* pick_number_field::<f64>(&split, num)
PickNumberField(split, num) ==
    LET s == Get(split, num)
        p == ParseF64(s)
    IN  IF s = <<>> THEN Ok(None)
        ELSE IF IsErr(p) THEN Err(<<"Failed to parse field", num, s>>)
        ELSE Ok(Some(p[2]))

\* Degrees-minutes numeral and hemisphere letter to signed thousandths of
\* an arc minute; pos and neg are the two letters of the axis.
ParseCoordinate(numeral, hemisphere, pos, neg) ==
    LET dot  == IndexOf(numeral, ".")
        ip   == IF dot = 0 THEN numeral ELSE SubSeq(numeral, 1, dot - 1)
        fp   == IF dot = 0 THEN <<>>
                ELSE SubSeq(numeral, dot + 1, Len(numeral))
        deg  == DecVal(SubSeq(ip, 1, Len(ip) - 2))
        min  == DecVal(SubSeq(ip, Len(ip) - 1, Len(ip)))
        mag  == deg * 60000 + min * 1000 + FracMilli(fp)
        bad  == Err(<<"Invalid coordinate", numeral, hemisphere>>)
    IN  IF numeral = <<>> /\ hemisphere = <<>> THEN Ok(None)
        ELSE IF numeral = <<>>
        THEN (IF lone_hemisphere = "None" THEN Ok(None) ELSE bad)
        ELSE IF hemisphere \notin {<<pos>>, <<neg>>} THEN bad
        ELSE IF ~(IsDigits(ip) /\ IsDigits(fp) /\ Len(ip) >= 2) THEN bad
        ELSE Ok(Some(IF hemisphere = <<neg>> THEN 0 - mag ELSE mag))

parse_latitude_ddmm_mmm(lat_string, hemisphere) ==
    ParseCoordinate(lat_string, hemisphere, "N", "S")

parse_longitude_dddmm_mmm(lon_string, hemisphere) ==
    ParseCoordinate(lon_string, hemisphere, "E", "W")

Century == 2000

DaysInMonth(year, month) ==
    IF month = 2
    THEN (IF year % 4 = 0 /\ (year % 100 # 0 \/ year % 400 = 0)
          THEN 29 ELSE 28)
    ELSE IF month \in {4, 6, 9, 11} THEN 30 ELSE 31

\* parse_yymmdd_hhmmss(date, time): DDMMYY and HHMMSS to a UTC instant.
parse_yymmdd_hhmmss(yymmdd, hhmmss) ==
    LET two(s, i) == DecVal(SubSeq(s, i, i + 1))
        day    == two(yymmdd, 1)
        month  == two(yymmdd, 3)
        year   == Century + two(yymmdd, 5)
        hour   == two(hhmmss, 1)
        minute == two(hhmmss, 3)
        second == two(hhmmss, 5)
    IN  IF /\ Len(yymmdd) = 6 /\ IsDigits(yymmdd)
           /\ Len(hhmmss) = 6 /\ IsDigits(hhmmss)
           /\ month \in 1..12 /\ day \in 1..DaysInMonth(year, month)
           /\ hour < 24 /\ minute < 60 /\ second < 60
        THEN Ok([year |-> year, month |-> month, day |-> day,
                 hour |-> hour, minute |-> minute, second |-> second])
        ELSE Err(<<"Invalid date or time", yymmdd, hhmmss>>)

NavigationSystem == {"Gps", "Glonass"}

(***************************************************************************)
(* handle (src/gnss/rmc.rs).  The field initialisers are evaluated in the  *)
(* order they are written; a `return Err` or a `?` inside one ends the     *)
(* call.                                                                   *)
(***************************************************************************)
\* Result::ok(): Ok(v) to Some(v), Err(_) to None.
ResultOk(r) == IF IsOk(r) THEN Some(r[2]) ELSE None

Timestamp(split) ==
    ResultOk(parse_yymmdd_hhmmss(Get(split, 9), Get(split, 1)))

\* Faulty variant of StatusActive: "D" read as void.
StatusActiveDifferentialVoid(split) ==
    LET s == Get(split, 2)
    IN  CASE s = <<"A">> -> Ok(Some(TRUE))
          [] s = <<"D">> -> Ok(Some(FALSE))
          [] s = <<"V">> -> Ok(Some(FALSE))
          [] s = <<>>    -> Ok(None)
          [] OTHER -> Err(<<"Invalid RMC navigation receiver status: ", s>>)

\* Faulty variant of StatusActive: an unrecognized letter read as None.
StatusActiveLenient(split) ==
    LET s == Get(split, 2)
    IN  CASE s = <<"A">> -> Ok(Some(TRUE))
          [] s = <<"D">> -> Ok(Some(TRUE))
          [] s = <<"V">> -> Ok(Some(FALSE))
          [] OTHER -> Ok(None)

\* Faulty variant of StatusActive: an empty field defaulted to void.
StatusActiveDefaulted(split) ==
    LET s == Get(split, 2)
    IN  CASE s = <<"A">> -> Ok(Some(TRUE))
          [] s = <<"D">> -> Ok(Some(TRUE))
          [] s = <<"V">> -> Ok(Some(FALSE))
          [] s = <<>>    -> Ok(Some(FALSE))
          [] OTHER -> Err(<<"Invalid RMC navigation receiver status: ", s>>)

\* Faulty variant of StatusActive: no arm for the empty field.
StatusActiveNoEmptyArm(split) ==
    LET s == Get(split, 2)
    IN  CASE s = <<"A">> -> Ok(Some(TRUE))
          [] s = <<"D">> -> Ok(Some(TRUE))
          [] s = <<"V">> -> Ok(Some(FALSE))
          [] OTHER -> Err(<<"Invalid RMC navigation receiver status: ", s>>)

StatusActive(split) ==
    LET s == Get(split, 2)
    IN  CASE s = <<"A">> -> Ok(Some(TRUE))
          [] s = <<"D">> -> Ok(Some(TRUE))
          [] s = <<"V">> -> Ok(Some(FALSE))
          [] s = <<>>    -> Ok(None)
          [] OTHER -> Err(<<"Invalid RMC navigation receiver status: ", s>>)

Latitude(split) == parse_latitude_ddmm_mmm(Get(split, 3), Get(split, 4))

Longitude(split) == parse_longitude_dddmm_mmm(Get(split, 5), Get(split, 6))

\* Faulty variant of Variation: the value is not negated for "W".
VariationUnsigned(split) ==
    LET picked == PickNumberField(split, 10)
    IN  IF IsErr(picked) THEN picked
        ELSE IF IsSome(picked[2])
        THEN LET val  == picked[2][2]
                 side == Get(split, 11)
             IN  CASE side = <<"E">> -> Ok(Some(val))
                   [] side = <<"W">> -> Ok(Some(val))
                   [] OTHER -> Err(<<"Invalid RMC variation side: ", side>>)
        ELSE Ok(None)

\* Faulty variant of Variation: a sentence that ends before the sign
\* field is read as east.
VariationAbsentSide(split) ==
    LET picked == PickNumberField(split, 10)
    IN  IF IsErr(picked) THEN picked
        ELSE IF IsSome(picked[2])
        THEN LET val  == picked[2][2]
                 side == Get(split, 11)
             IN  CASE Len(split) <= 11 -> Ok(Some(val))
                   [] side = <<"E">> -> Ok(Some(val))
                   [] side = <<"W">> -> Ok(Some(0 - val))
                   [] OTHER -> Err(<<"Invalid RMC variation side: ", side>>)
        ELSE Ok(None)

Variation(split) ==
    LET picked == PickNumberField(split, 10)
    IN  IF IsErr(picked) THEN picked
        ELSE IF IsSome(picked[2])
        THEN LET val  == picked[2][2]
                 side == Get(split, 11)
             IN  CASE side = <<"E">> -> Ok(Some(val))
                   [] side = <<"W">> -> Ok(Some(0 - val))
                   [] OTHER -> Err(<<"Invalid RMC variation side: ", side>>)
        ELSE Ok(None)

\* Faulty variant of Source: the tag is fixed.
SourceGps(nav_system_) == "Gps"

\* source: nav_system
Source(nav_system_) == nav_system_

\* Faulty variant of Assemble: the variation is decoded before the
\* speed and the track angle.
AssembleVariationFirst(split, nav_system_) ==
    LET timestamp     == Timestamp(split)
        status_active == StatusActive(split)
        latitude      == Latitude(split)
        longitude     == Longitude(split)
        sog_knots     == PickNumberField(split, 7)
        bearing       == PickNumberField(split, 8)
        variation     == Variation(split)
    IN  IF IsErr(status_active) THEN status_active
        ELSE IF IsErr(latitude) THEN latitude
        ELSE IF IsErr(longitude) THEN longitude
        ELSE IF IsErr(variation) THEN variation
        ELSE IF IsErr(sog_knots) THEN sog_knots
        ELSE IF IsErr(bearing) THEN bearing
        ELSE Ok([source        |-> Source(nav_system_),
                 timestamp     |-> timestamp,
                 status_active |-> status_active[2],
                 latitude      |-> latitude[2],
                 longitude     |-> longitude[2],
                 sog_knots     |-> sog_knots[2],
                 bearing       |-> bearing[2],
                 variation     |-> variation[2]])

\* Ok(ParsedMessage::Rmc(RmcData { ... })) over the collected fields.
Assemble(split, nav_system_) ==
    LET timestamp     == Timestamp(split)
        status_active == StatusActive(split)
        latitude      == Latitude(split)
        longitude     == Longitude(split)
        sog_knots     == PickNumberField(split, 7)
        bearing       == PickNumberField(split, 8)
        variation     == Variation(split)
    IN  IF IsErr(status_active) THEN status_active
        ELSE IF IsErr(latitude) THEN latitude
        ELSE IF IsErr(longitude) THEN longitude
        ELSE IF IsErr(sog_knots) THEN sog_knots
        ELSE IF IsErr(bearing) THEN bearing
        ELSE IF IsErr(variation) THEN variation
        ELSE Ok([source        |-> Source(nav_system_),
                 timestamp     |-> timestamp,
                 status_active |-> status_active[2],
                 latitude      |-> latitude[2],
                 longitude     |-> longitude[2],
                 sog_knots     |-> sog_knots[2],
                 bearing       |-> bearing[2],
                 variation     |-> variation[2]])

\* Faulty variant of Handle: a failure of the date-time decoder ends the
\* call.
HandleStrictTime(sentence_, nav_system_) ==
    LET split == Split(sentence_)
        parsed == parse_yymmdd_hhmmss(Get(split, 9), Get(split, 1))
    IN  IF IsErr(parsed) THEN parsed ELSE Assemble(split, nav_system_)

Handle(sentence_, nav_system_) == Assemble(Split(sentence_), nav_system_)

(***************************************************************************)
(* The caller: NmeaParser::parse_sentence strips the checksum and hands    *)
(* the sentence to handle.  The sentences are the two of test_parse_cprmc  *)
(* and what a receiver makes of them by changing, emptying or dropping     *)
(* fields.                                                                 *)
(***************************************************************************)
MaxEdits == 1

LastField == 11

ScenarioA ==
    <<<<"$", "G", "P", "R", "M", "C">>,
      <<"2", "2", "5", "4", "4", "6">>,
      <<"A">>,
      <<"4", "9", "1", "6", ".", "4", "5">>,
      <<"N">>,
      <<"1", "2", "3", "1", "1", ".", "1", "2">>,
      <<"W">>,
      <<"0", "0", "0", ".", "5">>,
      <<"0", "5", "4", ".", "7">>,
      <<"1", "9", "1", "1", "2", "0">>,
      <<"0", "2", "0", ".", "3">>,
      <<"E">>>>

ScenarioB ==
    <<<<"$", "G", "P", "R", "M", "C">>,
      <<"2", "2", "5", "4", "4", "6">>,
      <<"A">>,
      <<>>,
      <<>>,
      <<>>,
      <<>>,
      <<>>,
      <<>>,
      <<"0", "7", "0", "8", "0", "9">>,
      <<>>,
      <<>>>>

\* A sentence every field of which is malformed.
Garbled ==
    <<<<"$", "G", "P", "R", "M", "C">>,
    <<"2", "5", "6", "1", "9", "9">>,
    <<"X">>,
    <<"4", "9", "x", "6">>,
    <<"E">>,
    <<"x">>,
    <<"N">>,
    <<"1", "x">>,
    <<"-">>,
    <<"3", "1", "0", "2", "1", "9">>,
    <<"2", "O", ".", "3">>,
    <<"X">>>>

FieldValues(i) ==
    CASE i = 1 -> {<<>>, <<"2", "2", "5", "4", "4", "6">>, <<"2", "5", "6", "1", "9", "9">>}
      [] i = 2 -> {<<>>, <<"A">>, <<"D">>, <<"V">>, <<"X">>, <<"A", "V">>}
      [] i = 3 -> {<<>>, <<"4", "9", "1", "6", ".", "4", "5">>, <<"5">>, <<"4", "9", "x", "6">>}
      [] i = 4 -> {<<>>, <<"N">>, <<"S">>, <<"E">>}
      [] i = 5 -> {<<>>, <<"1", "2", "3", "1", "1", ".", "1", "2">>, <<"x">>}
      [] i = 6 -> {<<>>, <<"E">>, <<"W">>, <<"N">>}
      [] i = 7 -> {<<>>, <<"0", "0", "0", ".", "5">>, <<"1", "x">>}
      [] i = 8 -> {<<>>, <<"0", "5", "4", ".", "7">>, <<"-">>}
      [] i = 9 -> {<<>>, <<"1", "9", "1", "1", "2", "0">>, <<"0", "7", "0", "8", "0", "9">>, <<"3", "1", "0", "2", "1", "9">>}
      [] i = 10 -> {<<>>, <<"0", "2", "0", ".", "3">>, <<"0">>, <<"2", "O", ".", "3">>}
      [] i = 11 -> {<<>>, <<"E">>, <<"W">>, <<"X">>, <<"e">>}

RECURSIVE Join(_)
Join(fs) ==
    IF Len(fs) = 0 THEN <<>>
    ELSE IF Len(fs) = 1 THEN fs[1]
    ELSE fs[1] \o <<",">> \o Join(Tail(fs))

RECURSIVE EmptyFields(_)
EmptyFields(n) == IF n <= 0 THEN <<>> ELSE <<<<>>>> \o EmptyFields(n - 1)

\* fs extended with empty fields up to position LastField.
Padded(fs) == fs \o EmptyFields(LastField + 1 - Len(fs))

\* fs with the field at position i replaced by v.
WithField(fs, i, v) ==
    SubSeq(fs, 1, i) \o <<v>> \o SubSeq(fs, i + 2, Len(fs))

\* fs with the fields at positions lo..hi emptied.
WithEmptied(fs, lo, hi) ==
    SubSeq(fs, 1, lo) \o EmptyFields(hi - lo + 1)
        \o SubSeq(fs, hi + 2, Len(fs))

Parse(fs) ==
    /\ fields' = fs
    /\ sentence' = Join(fs)
    /\ result' = Handle(sentence', nav_system)
    /\ first' = result'
    /\ again' = FALSE
    /\ edits' = edits + 1
    /\ UNCHANGED <<nav_system, lone_hemisphere>>

Init ==
    /\ fields \in {ScenarioA, ScenarioB, Garbled}
    /\ sentence = Join(fields)
    /\ nav_system \in NavigationSystem
    /\ lone_hemisphere \in {"None", "Err"}
    /\ result = Handle(sentence, nav_system)
    /\ first = result
    /\ again = FALSE
    /\ edits = 0

\* A sentence with field i changed to v (the sentence grows to hold it).
ParseChanged(i, v) ==
    /\ edits < MaxEdits
    /\ v # Get(fields, i)
    /\ Parse(WithField(Padded(fields), i, v))

\* A sentence with fields lo..hi present but empty.
ParseEmptied(lo, hi) ==
    /\ edits < MaxEdits
    /\ hi < Len(fields)
    /\ \E j \in lo..hi : fields[j + 1] # <<>>
    /\ Parse(WithEmptied(fields, lo, hi))

\* A sentence truncated before its last k fields.
ParseTruncated(k) ==
    /\ edits < MaxEdits
    /\ k < Len(fields)
    /\ Parse(SubSeq(fields, 1, Len(fields) - k))

\* The same sentence handed to handle once more.
ParseAgain ==
    /\ ~again
    /\ result' = Handle(sentence, nav_system)
    /\ again' = TRUE
    /\ UNCHANGED <<fields, sentence, nav_system, first, edits,
                   lone_hemisphere>>

Next ==
    \/ \E i \in 1..LastField : \E v \in FieldValues(i) : ParseChanged(i, v)
    \/ \E lo \in 1..LastField : \E hi \in lo..LastField : ParseEmptied(lo, hi)
    \/ \E k \in 1..LastField : ParseTruncated(k)
    \/ ParseAgain

Spec == Init /\ [][Next]_vars

(***************************************************************************)
(* Properties.  F(i) is the field the receiver put at position i of the    *)
(* sentence (empty when the sentence ends before it); rmc is the record    *)
(* of a successful call.                                                   *)
(***************************************************************************)
F(i) == Get(fields, i)

rmc == result[2]

ValidTime == <<"2", "2", "5", "4", "4", "6">>

ValidDate == <<"1", "9", "1", "1", "2", "0">>

\* The decoders that run before the variation decoder all succeed.
EarlierFieldsDecode ==
    /\ IsOk(StatusActive(fields))
    /\ IsOk(Latitude(fields))
    /\ IsOk(Longitude(fields))
    /\ IsOk(PickNumberField(fields, 7))
    /\ IsOk(PickNumberField(fields, 8))

\* C1: the status letter at position 2 decodes as A -> Some(true),
\* D -> Some(true), V -> Some(false), empty -> None in every record
\* returned, and any other non-empty value makes the call fail.
C1_StatusDecode ==
    LET s == F(2)
    IN  /\ s \notin {<<"A">>, <<"D">>, <<"V">>, <<>>} => IsErr(result)
        /\ IsOk(result) =>
              /\ s = <<"A">> => rmc.status_active = Some(TRUE)
              /\ s = <<"D">> => rmc.status_active = Some(TRUE)
              /\ s = <<"V">> => rmc.status_active = Some(FALSE)
              /\ s = <<>> => rmc.status_active = None
        /\ (s \in {<<"A">>, <<"D">>, <<"V">>, <<>>}
               /\ IsOk(Latitude(fields)) /\ IsOk(Longitude(fields))
               /\ IsOk(PickNumberField(fields, 7))
               /\ IsOk(PickNumberField(fields, 8))
               /\ IsOk(Variation(fields))) => IsOk(result)

C1_Witness ==
    /\ F(2) = <<"D">>
    /\ IsOk(result)
    /\ rmc.status_active = Some(TRUE)

\* C2: when the other fields decode, an empty magnitude (position 10)
\* gives variation None, a parsable magnitude v gives Some(v) with sign E
\* and Some(-v) with sign W, and fails the call with any other sign.
C2_VariationDecode ==
    LET mag  == F(10)
        sign == F(11)
        v    == ParseF64(mag)
    IN  EarlierFieldsDecode =>
          /\ mag = <<>> => (IsOk(result) /\ rmc.variation = None)
          /\ (mag # <<>> /\ IsOk(v) /\ sign = <<"E">>) =>
                (IsOk(result) /\ rmc.variation = Some(v[2]))
          /\ (mag # <<>> /\ IsOk(v) /\ sign = <<"W">>) =>
                (IsOk(result) /\ rmc.variation = Some(0 - v[2]))
          /\ (mag # <<>> /\ IsOk(v) /\ sign \notin {<<"E">>, <<"W">>}) =>
                IsErr(result)

C2_Witness ==
    /\ F(10) = <<"0", "2", "0", ".", "3">>
    /\ F(11) = <<"W">>
    /\ IsOk(result)
    /\ rmc.variation = Some(0 - 20300)

\* The last k fields of the sentence are present and empty.
TrailingEmpty(k) ==
    /\ k < Len(fields)
    /\ \A j \in (Len(fields) - k + 1)..Len(fields) : fields[j] = <<>>

Truncated(k) == Join(SubSeq(fields, 1, Len(fields) - k))

\* C3: whenever the last k fields of the sentence are present but empty,
\* the sentence truncated before them gets the same tagged result.
C3_TruncationAsEmpty ==
    \A k \in 1..Len(fields) :
        TrailingEmpty(k) => Handle(Truncated(k), nav_system) = result

C3_Witness ==
    /\ Len(fields) = LastField + 1
    /\ F(10) # <<>>
    /\ TrailingEmpty(1)
    /\ IsErr(result)
    /\ Handle(Truncated(1), nav_system) = result

StatusLetters == {<<"A">>, <<"D">>, <<"V">>}

SignLetters == {<<"E">>, <<"W">>}

\* C4 as stated: a non-empty status letter outside {A, D, V}, or a
\* non-empty variation sign outside {E, W}, always makes the call fail,
\* also when the variation magnitude is empty.
C4_Original ==
    (\/ (F(2) # <<>> /\ F(2) \notin StatusLetters)
     \/ (F(11) # <<>> /\ F(11) \notin SignLetters)) => IsErr(result)

\* C4 amended: a non-empty status letter outside {A, D, V} always makes
\* the call fail; a non-empty sign outside {E, W} makes the call fail
\* whenever the magnitude at position 10 is non-empty; with an empty
\* magnitude the sign is not examined, and a sentence whose earlier
\* fields decode gets a record with variation None.
C4_UnrecognizedLetter ==
    /\ (F(2) # <<>> /\ F(2) \notin StatusLetters) => IsErr(result)
    /\ (F(11) # <<>> /\ F(11) \notin SignLetters /\ F(10) # <<>>) =>
          IsErr(result)
    /\ (F(11) # <<>> /\ F(11) \notin SignLetters /\ F(10) = <<>>
           /\ EarlierFieldsDecode) =>
          (IsOk(result) /\ rmc.variation = None)

C4_Witness ==
    /\ F(11) = <<"X">>
    /\ F(10) = <<>>
    /\ IsOk(result)
    /\ rmc.variation = None

\* C5 as stated: in every record returned, each optional attribute is
\* None if and only if all of its source fields are empty or absent.
C5_Original ==
    IsOk(result) =>
      /\ rmc.timestamp = None <=> (F(1) = <<>> /\ F(9) = <<>>)
      /\ rmc.status_active = None <=> F(2) = <<>>
      /\ rmc.latitude = None <=> (F(3) = <<>> /\ F(4) = <<>>)
      /\ rmc.longitude = None <=> (F(5) = <<>> /\ F(6) = <<>>)
      /\ rmc.sog_knots = None <=> F(7) = <<>>
      /\ rmc.bearing = None <=> F(8) = <<>>
      /\ rmc.variation = None <=> (F(10) = <<>> /\ F(11) = <<>>)

\* C5 amended: in every record returned, status_active, sog_knots and
\* bearing are None exactly when their field is empty or absent;
\* latitude, longitude and variation are None exactly when their numeral
\* (position 3, 5, 10) is empty or absent, whatever the letter field
\* holds; timestamp is None exactly when the time or the date is empty,
\* absent or not a valid clock time or calendar date.
C5_NoneIffUnavailable ==
    IsOk(result) =>
      /\ rmc.timestamp = None <=>
            IsErr(parse_yymmdd_hhmmss(F(9), F(1)))
      /\ (F(1) = <<>> \/ F(9) = <<>>) => rmc.timestamp = None
      /\ rmc.status_active = None <=> F(2) = <<>>
      /\ rmc.latitude = None <=> F(3) = <<>>
      /\ rmc.longitude = None <=> F(5) = <<>>
      /\ rmc.sog_knots = None <=> F(7) = <<>>
      /\ rmc.bearing = None <=> F(8) = <<>>
      /\ rmc.variation = None <=> F(10) = <<>>

C5_Witness ==
    /\ IsOk(result)
    /\ F(1) # <<>>
    /\ rmc.timestamp = None
    /\ F(10) = <<>>
    /\ F(11) # <<>>
    /\ rmc.variation = None

\* The sentence with a valid time at position 1 and date at position 9.
WithValidTimeAndDate ==
    Join(WithField(WithField(Padded(fields), 1, ValidTime), 9, ValidDate))

\* C6: a time or date that is empty, absent or invalid gives timestamp
\* None and never fails the call: success or failure, the failure
\* returned and every other attribute are those of the same sentence
\* with a valid time and date.
C6_LenientDateTime ==
    LET other == Handle(WithValidTimeAndDate, nav_system)
    IN  /\ IsOk(result) <=> IsOk(other)
        /\ IsErr(result) => result = other
        /\ IsOk(result) =>
              /\ [other[2] EXCEPT !.timestamp = rmc.timestamp] = rmc
              /\ IsErr(parse_yymmdd_hhmmss(F(9), F(1))) =>
                    rmc.timestamp = None
              /\ (F(1) = <<>> \/ F(9) = <<>>) => rmc.timestamp = None
              /\ other[2].timestamp # None

C6_Witness ==
    /\ F(1) = <<"2", "5", "6", "1", "9", "9">>
    /\ F(9) = ValidDate
    /\ IsOk(result)
    /\ rmc.timestamp = None
    /\ rmc.sog_knots = Some(500)

Decoders ==
    <<StatusActive(fields), Latitude(fields), Longitude(fields),
      PickNumberField(fields, 7), PickNumberField(fields, 8),
      Variation(fields)>>

\* C7: the call returns exactly one outcome; when a decoder fails, the
\* outcome is the failure of the earliest failing decoder in the order
\* status, latitude, longitude, speed, track angle, variation, and
\* otherwise it is a record.
C7_FirstFailureAborts ==
    /\ Len(result) = 2
    /\ result[1] \in {"Ok", "Err"}
    /\ \A i \in 1..Len(Decoders) :
          (IsErr(Decoders[i]) /\ \A j \in 1..(i - 1) : IsOk(Decoders[j]))
              => result = Decoders[i]
    /\ (\A i \in 1..Len(Decoders) : IsOk(Decoders[i])) => IsOk(result)

C7_Witness ==
    /\ EarlierFieldsDecode = FALSE
    /\ IsOk(Decoders[1]) /\ IsOk(Decoders[2]) /\ IsOk(Decoders[3])
    /\ IsErr(Decoders[4]) /\ IsErr(Decoders[5]) /\ IsErr(Decoders[6])
    /\ result = Decoders[4]

\* Every decoder other than the variation decoder succeeds and the
\* magnitude at position 10 is empty or a valid numeral.
OtherFieldsDecode ==
    /\ EarlierFieldsDecode
    /\ IsOk(PickNumberField(fields, 10))

StatusFailure(r) ==
    IsErr(r) /\ r[2][1] = "Invalid RMC navigation receiver status: "

\* C8 as stated: an empty or absent status letter or variation sign
\* yields None for its attribute and never a failure, whatever the other
\* fields hold, a parsable magnitude at position 10 included.
C8_Original ==
    /\ F(2) = <<>> => ~StatusFailure(result)
    /\ (F(2) = <<>> /\ IsOk(result)) => rmc.status_active = None
    /\ (F(11) = <<>> /\ OtherFieldsDecode) =>
          (IsOk(result) /\ rmc.variation = None)

\* C8 amended: an empty or absent status letter yields status_active
\* None and never a failure.  An empty or absent variation sign yields
\* variation None only when the magnitude at position 10 is empty or
\* absent too; with a parsable magnitude and the other fields decoding,
\* the call fails with "Invalid RMC variation side: ".
C8_EmptyLetter ==
    /\ F(2) = <<>> => ~StatusFailure(result)
    /\ (F(2) = <<>> /\ IsOk(result)) => rmc.status_active = None
    /\ (F(11) = <<>> /\ F(10) = <<>> /\ OtherFieldsDecode) =>
          (IsOk(result) /\ rmc.variation = None)
    /\ (F(11) = <<>> /\ F(10) # <<>> /\ OtherFieldsDecode) =>
          result = Err(<<"Invalid RMC variation side: ", <<>>>>)

C8_Witness ==
    /\ F(10) = <<"0", "2", "0", ".", "3">>
    /\ F(11) = <<>>
    /\ result = Err(<<"Invalid RMC variation side: ", <<>>>>)

VariationAt10And11 ==
    IF F(10) = <<>> THEN None
    ELSE IF F(11) = <<"W">> THEN Some(0 - ParseF64(F(10))[2])
    ELSE Some(ParseF64(F(10))[2])

\* C10: the tokenizer gives back the fields in order, empty ones
\* included, and every attribute of a record is decoded from its fixed
\* positions (time 1, status 2, latitude 3 and 4, longitude 5 and 6,
\* speed 7, track angle 8, date 9, variation 10 and 11) however many
\* fields are empty; the sentence of the test with positions 3 to 8
\* empty gets its timestamp from the date at position 9.
C10_FixedPositions ==
    /\ Split(sentence) = fields
    /\ IsOk(result) =>
          /\ rmc.timestamp = ResultOk(parse_yymmdd_hhmmss(F(9), F(1)))
          /\ rmc.status_active =
                (IF F(2) = <<>> THEN None ELSE Some(F(2) # <<"V">>))
          /\ rmc.latitude = parse_latitude_ddmm_mmm(F(3), F(4))[2]
          /\ rmc.longitude = parse_longitude_dddmm_mmm(F(5), F(6))[2]
          /\ rmc.sog_knots = PickNumberField(fields, 7)[2]
          /\ rmc.bearing = PickNumberField(fields, 8)[2]
          /\ rmc.variation = VariationAt10And11
    /\ fields = ScenarioB =>
          /\ IsOk(result)
          /\ rmc.status_active = Some(TRUE)
          /\ rmc.timestamp =
                Some([year |-> 2009, month |-> 8, day |-> 7,
                      hour |-> 22, minute |-> 54, second |-> 46])
          /\ rmc.sog_knots = None
          /\ rmc.bearing = None
          /\ rmc.variation = None

C10_Witness ==
    /\ edits > 0
    /\ \A i \in 3..8 : F(i) = <<>>
    /\ F(9) = ValidDate
    /\ F(10) = <<"0", "2", "0", ".", "3">>
    /\ IsOk(result)
    /\ rmc.timestamp =
          Some([year |-> 2020, month |-> 11, day |-> 19,
                hour |-> 22, minute |-> 54, second |-> 46])
    /\ rmc.sog_knots = None
    /\ rmc.variation = Some(20300)

====
